---- MODULE Spec2Model ----
(***************************************************************************)
(* Acquisition control of pymodaq's DAQ_Viewer: the worker (DAQ_Detector)  *)
(* that drives the hardware plugin, and the controller (DAQ_Viewer) that   *)
(* receives its batches and statuses.                                      *)
(* Source: src/src/pymodaq/control_modules/daq_viewer.py                   *)
(***************************************************************************)
EXTENDS Integers, Sequences, FiniteSets, TLC

\* ------------------------------------------------------------------ bounds
MaxN == 2          \* largest averaging target (Naverage) of the interleaving model
MaxAvg == 3        \* largest averaging target of the averaging model
MaxDepth == 2      \* nested handlers (a handler run from processEvents)
MaxInFlight == 2   \* hardware requests whose data callback is still queued
MaxViewers == 2    \* most viewers attached to the user interface
MaxBatches == 3    \* batches the controller receives in one run
MaxReceived == 3   \* most viewer data counted by the controller for one export
MaxElapsed == 2    \* clock ticks counted since _start_grab_time (then saturated)
MaxSaved == 2      \* batches of the saving models
MaxFaults == 1     \* requests of the plugin that raise

Channels == {1, 2}        \* channels of one batch
SampleVals == {1, 2, 3}   \* values a raw sample takes in its first channel

VARIABLES
    det,       \* the DAQ_Detector object (worker): its attributes
    drv,       \* the hardware plugin as the worker sees it
    stack,     \* the worker's handlers suspended in processEvents, outermost first
    out,       \* signals emitted and plugin calls made by the last step, in order
    hist,      \* history of the current acquisition cycle (not program state)
    view,      \* the DAQ_Viewer object (controller): its attributes and settings
    echoes,    \* viewers that were shown data and have not yet sent it back
    vout,      \* signals emitted by the controller's last step, in order
    vhist,     \* history of the exports (not program state)
    link       \* the close command and status in flight, the controller's wait

workerVars == <<det, drv, stack, out, hist>>
viewerVars == <<view, echoes, vout, vhist>>
vars == <<det, drv, stack, out, hist, view, echoes, vout, vhist, link>>

Min(a, b) == IF a < b THEN a ELSE b
Max(a, b) == IF a < b THEN b ELSE a

\* the request count of a cycle is kept up to one past the largest target
ReqCap == Max(MaxN, MaxAvg) + 1

\* ------------------------------------------------------- numeric payloads
\* A channel value is an exact fraction num/den (den > 0), kept reduced.
RECURSIVE Gcd(_, _)
Gcd(a, b) == IF b = 0 THEN a ELSE Gcd(b, a % b)

Rat(n, d) == LET g == Gcd(n, d) IN [num |-> n \div g, den |-> d \div g]

IncMean_halved(ind, old, sample) ==
    Rat(old.num * sample.den + sample.num * old.den, old.den * sample.den * 2)

\* ((ind - 1) * old + sample) / ind, lines 1419-1421
IncMean(ind, old, sample) ==
    Rat((ind - 1) * old.num * sample.den + sample.num * old.den,
        old.den * sample.den * ind)

NoData == <<>>
\* the second channel repeats the first one or mirrors it
Batches ==
    {[ch \in Channels |-> Rat(IF ch = 1 THEN v ELSE w, 1)] :
        <<v, w>> \in {<<1, 1>>, <<2, 2>>, <<3, 3>>, <<1, 3>>, <<3, 1>>}}
OneBatch == {[ch \in Channels |-> Rat(1, 1)]}

\* ----------------------------------------------------------- worker state
\* The plugin as the worker holds it: detector is "None" until ini_detector
\* has constructed the plugin object, then "built", "initialized" or "closed";
\* live_mode_available and hardware_averaging are attributes of its class.
Plugin(live_mode_available, hardware_averaging, detector) ==
    [live_mode_available |-> live_mode_available, streaming |-> FALSE, inFlight |-> 0,
     hardware_averaging |-> hardware_averaging, detector |-> detector, faults |-> 0]

HasDetector(s) == s.drv.detector # "None"

\* One record carries the worker side through the helpers of one handler.
WorkerState ==
    [det |-> det, drv |-> drv, stack |-> stack, out |-> <<>>, hist |-> hist]

CommitWorker(s) ==
    /\ det' = s.det
    /\ drv' = s.drv
    /\ stack' = s.stack
    /\ out' = s.out
    /\ hist' = s.hist

Commit(s) == CommitWorker(s) /\ UNCHANGED <<viewerVars, link>>

Event(sig, cmd, datas) == [sig |-> sig, cmd |-> cmd, datas |-> datas]

Emitted(s, e) == [s EXCEPT !.out = Append(@, e)]

status_sig(s, cmd) == Emitted(s, Event("status_sig", cmd, NoData))

NewCycle == [nReq |-> 0, nEmit |-> 0, samples |-> <<>>, cycleDone |-> FALSE]

\* data_detector_sig.emit(datas): the batch goes to the controller
data_detector_sig(s, datas) ==
    [Emitted(s, Event("data_detector_sig", "", datas)) EXCEPT
        !.hist.nEmit = Min(@ + 1, 2),
        !.hist.cycleDone = TRUE,
        !.stack = [i \in DOMAIN s.stack |-> [s.stack[i] EXCEPT !.emitted = TRUE]]]

\* detector.stop(): the plugin stops emitting
detector_stop(s) ==
    Emitted([s EXCEPT !.drv.streaming = FALSE], Event("detector.stop", "", NoData))

\* line 1429: the averaging target is reached
EmitDue_every(ind, Naverage) == ind >= 1

EmitDue(ind, Naverage) == ind = Naverage

\* lines 1435-1438, the end of data_ready
data_ready_end_without_stop(s) == [s EXCEPT !.det.waiting_for_data = FALSE]
data_ready_end(s) ==
    LET s2 == [s EXCEPT !.det.waiting_for_data = FALSE]
    IN  IF ~s2.det.grab_state THEN detector_stop(s2) ELSE s2

\* data_ready taking the software branch whatever hardware_averaging is
data_ready_accumulating(s, datas) ==
    LET ind == s.det.ind_average + 1
        mean == IF ind = 1
                THEN datas
                ELSE [ch \in DOMAIN datas |-> IncMean(ind, s.det.datas[ch], datas[ch])]
        acc == [s EXCEPT !.det.ind_average = ind, !.det.datas = mean]
    IN  data_ready_end(IF EmitDue(ind, s.det.Naverage)
                       THEN [data_detector_sig([acc EXCEPT !.det.average_done = TRUE], mean)
                                EXCEPT !.det.ind_average = 0]
                       ELSE acc)

\* DAQ_Detector.data_ready, lines 1412-1438
data_ready(s, datas) ==
    LET d == s.det
        ind == d.ind_average + 1
        mean == IF ind = 1
                THEN datas
                ELSE [ch \in DOMAIN datas |-> IncMean(ind, d.datas[ch], datas[ch])]
        seen == [s EXCEPT
                   !.hist.samples = IF s.hist.cycleDone THEN <<datas>> ELSE Append(@, datas),
                   !.hist.cycleDone = FALSE]
        acc == [seen EXCEPT !.det.ind_average = ind, !.det.datas = mean]
        s1 == IF ~d.hardware_averaging
              THEN IF EmitDue(ind, d.Naverage)
                   THEN [data_detector_sig([acc EXCEPT !.det.average_done = TRUE], mean)
                            EXCEPT !.det.ind_average = 0]
                   ELSE acc
              ELSE data_detector_sig(s, datas)
    IN  data_ready_end(s1)

\* an exception that leaves the slot: the handler stops where it was raised
Raised_in_slot(s, cmd) == Emitted(s, Event("raise", cmd, NoData))

\* except Exception as e: self.logger.exception(str(e)) -- the handler goes on
CaughtAndLogged_reraised(s, cmd) == Raised_in_slot(s, cmd)
CaughtAndLogged(s, cmd) == s

\* detector.grab_data(Naverage, live=live, **kwargs), line 1493: the plugin
\* answers the request inside the call (ans = "sync": it emits its data
\* signal from the worker's own context) or later from its own context
\* (ans = "async": the callback is queued); a plugin with live_mode_available
\* asked for live data keeps emitting until it is stopped. With ans = "raises"
\* the call raises (faults counts these calls): the except of line 1507 logs
\* and the loop goes on from its top.
detector_grab_data(s, Naverage, live, ans, datas) ==
    IF ans = "raises"
    THEN CaughtAndLogged([s EXCEPT !.drv.faults = @ + 1], "grab_data")
    ELSE
    LET s1 == [Emitted(s, Event("detector.grab_data", "", NoData)) EXCEPT
                  !.hist.nReq = Min(@ + 1, ReqCap),
                  !.drv.streaming = @ \/ (live /\ s.drv.live_mode_available)]
    IN  IF ans = "sync"
        THEN data_ready(s1, datas)
        ELSE [s1 EXCEPT !.drv.inFlight = @ + 1]

LoopTop_always(s, Naverage, live, ans, datas) ==
    detector_grab_data([s EXCEPT !.det.waiting_for_data = TRUE],
                       Naverage, live, ans, datas)

\* lines 1491-1493: one request if none is outstanding
LoopTop(s, Naverage, live, ans, datas) ==
    IF ~s.det.waiting_for_data
    THEN detector_grab_data([s EXCEPT !.det.waiting_for_data = TRUE],
                            Naverage, live, ans, datas)
    ELSE s

Frame(kind, Naverage, live) ==
    [kind |-> kind, Naverage |-> Naverage, live |-> live, emitted |-> FALSE]

Top(stk) == stk[Len(stk)]
Pop(s) == [s EXCEPT !.stack = SubSeq(@, 1, Len(@) - 1)]

\* grab_data whose prologue leaves ind_average as it is
grab_data_keeps_count(s, Naverage, live, ans, datas) ==
    LET s1 == [s EXCEPT !.det.Naverage = Naverage,
                        !.det.average_done = IF Naverage > 1 THEN FALSE ELSE @,
                        !.det.waiting_for_data = FALSE,
                        !.hist = NewCycle]
        s3 == [status_sig(s1, "grab") EXCEPT
                  !.stack = Append(@, Frame("grab_data", Naverage, live))]
    IN  IF HasDetector(s) THEN LoopTop(s3, Naverage, live, ans, datas) ELSE s1

\* DAQ_Detector.grab_data, lines 1474-1494: the prologue and the first pass
\* of the loop, up to its first processEvents
grab_data(s, Naverage, live, ans, datas) ==
    LET s1 == [s EXCEPT !.det.ind_average = 0,
                        !.det.Naverage = Naverage,
                        !.det.average_done = IF Naverage > 1 THEN FALSE ELSE @,
                        !.det.waiting_for_data = FALSE,
                        !.hist = NewCycle]
        s2 == status_sig(s1, "grab")
        s3 == [s2 EXCEPT !.stack = Append(@, Frame("grab_data", Naverage, live))]
    IN  IF HasDetector(s)
        THEN LoopTop(s3, Naverage, live, ans, datas)
        ELSE s1      \* line 1484 raises on None: caught and logged at line 1511

LoopBreaks_ignoring_stop(s) ==
    IF s.det.single_grab /\ s.det.hardware_averaging THEN TRUE
    ELSE IF s.det.single_grab /\ s.det.average_done THEN TRUE
    ELSE s.drv.live_mode_available

LoopBreaks_any_single(s) ==
    IF s.det.single_grab THEN TRUE
    ELSE IF ~s.det.grab_state THEN TRUE
    ELSE s.drv.live_mode_available

\* lines 1495-1506: does the loop break after processEvents returned?
LoopBreaks(s) ==
    IF s.det.single_grab /\ s.det.hardware_averaging THEN TRUE
    ELSE IF s.det.single_grab /\ s.det.average_done THEN TRUE
    ELSE IF ~s.det.grab_state THEN TRUE
    ELSE s.drv.live_mode_available

\* lines 1495-1509 then 1491-1494: from the return of processEvents to the
\* loop's exit, or to the next processEvents
loop_iteration(s, ans, datas) ==
    IF LoopBreaks(s)
    THEN status_sig(Pop(s), "grab_stopped")
    ELSE LoopTop(s, Top(s.stack).Naverage, Top(s.stack).live, ans, datas)

\* DAQ_Detector.single, lines 1440-1458
single(s, Naverage, ans, datas) == grab_data(s, Naverage, FALSE, ans, datas)

\* a plugin method called by queue_command outside any try
plugin_call(s, cmd, ans) ==
    IF ~HasDetector(s) \/ ans = "raises"
    THEN Raised_in_slot(s, cmd)
    ELSE Emitted(s, Event("detector", cmd, NoData))

\* the status edict of ini_detector; controller is "absent" while the key
\* has not been set
IniStatus(initialized, info, controller) ==
    [initialized |-> initialized, info |-> info, controller |-> controller]

IniAnswers == {"construct_raises", "init_raises", "refused", "ok", "ok_axes"}

Returned(s, status) == [s |-> s, status |-> status]

\* DAQ_Detector.ini_detector, lines 1345-1381: ans tells what the plugin does
ini_detector(s, ans) ==
    IF ans = "construct_raises"
    THEN Returned(CaughtAndLogged(s, "ini_detector"), IniStatus(FALSE, "", "absent"))
    ELSE LET s1 == [s EXCEPT !.drv.detector =
                                 IF ans \in {"ok", "ok_axes"} THEN "initialized" ELSE "built",
                             !.det.hardware_averaging = s.drv.hardware_averaging]
             s2 == IF ans = "ok_axes"
                   THEN status_sig(status_sig(s1, "x_axis"), "y_axis")
                   ELSE s1
         IN  CASE ans = "init_raises" ->
                    Returned(CaughtAndLogged(s2, "ini_detector"),
                             IniStatus(FALSE, "exception", "None"))
               [] ans = "refused" -> Returned(s2, IniStatus(FALSE, "refused", "handle"))
               [] OTHER -> Returned(s2, IniStatus(TRUE, "", "handle"))

CloseAnswers == {"stop_raises", "close_raises", "ok"}

close_without_stop(s, ans) ==
    IF ~HasDetector(s) \/ ans # "ok"
    THEN Returned(s, [info |-> "exception"])
    ELSE Returned(Emitted([s EXCEPT !.drv.detector = "closed"],
                          Event("detector", "close", NoData)), [info |-> "closed"])

\* DAQ_Detector.close, lines 1514-1524
close(s, ans) ==
    IF ~HasDetector(s) THEN Returned(CaughtAndLogged(s, "close"), [info |-> "exception"])
    ELSE LET s1 == Emitted(s, Event("detector", "stop", NoData))
             s2 == Emitted([s1 EXCEPT !.drv.streaming = FALSE],
                           Event("detector", "close", NoData))
         IN  CASE ans = "stop_raises" ->
                    Returned(CaughtAndLogged(s1, "close"), [info |-> "exception"])
               [] ans = "close_raises" ->
                    Returned(CaughtAndLogged(s2, "close"), [info |-> "exception"])
               [] OTHER -> Returned([s2 EXCEPT !.drv.detector = "closed"],
                                    [info |-> "closed"])

PluginCommands == {"update_scanner", "move_at_navigator", "update_com", "get_axis"}

\* DAQ_Detector.queue_command, lines 1280-1327
queue_command(s, command, ans, datas) ==
    CASE command.command = "ini_detector" ->
            LET r == ini_detector(s, ans)
            IN  Emitted(r.s, Event("status_sig", "ini_detector", r.status))
      [] command.command = "close" ->
            LET r == close(s, ans)
            IN  Emitted(r.s, Event("status_sig", "close", r.status))
      [] command.command = "grab" ->
            grab_data([s EXCEPT !.det.single_grab = FALSE, !.det.grab_state = TRUE],
                      command.attribute, TRUE, ans, datas)
      [] command.command = "single" ->
            single([s EXCEPT !.det.single_grab = TRUE, !.det.grab_state = TRUE],
                   command.attribute, ans, datas)
      [] command.command = "stop_grab" ->
            status_sig([s EXCEPT !.det.grab_state = FALSE], "Update_Status")
      [] command.command = "stop_all" ->
            LET s0 == [s EXCEPT !.det.grab_state = FALSE]
                s1 == detector_stop(s0)
            IN  IF HasDetector(s)
                THEN [s1 EXCEPT !.stack = Append(@, Frame("stop_all", 0, FALSE))]
                ELSE Raised_in_slot(s0, "stop_all")
      [] command.command \in PluginCommands -> plugin_call(s, command.command, ans)
      [] command.command = "update_wait_time" -> s
      [] OTHER ->      \* a custom command: called if the plugin has the method
            IF HasDetector(s) /\ ans # "no_method"
            THEN plugin_call(s, command.command, ans)
            ELSE s

\* line 1306: stop_all after its processEvents returned
stop_all_resume(s) == status_sig(Pop(s), "Update_Status")

ThreadCommand(command, attribute) == [command |-> command, attribute |-> attribute]

Answers == {"sync", "async"}

\* the data a plugin hands over inside the call; none when it answers later
AnswerData(ans, batches) == IF ans = "sync" THEN batches ELSE {NoData}

\* ------------------------------------------------- controller: DAQ_Viewer
\* The controller state a handler works on: the handler's steps are applied
\* to this record in program order and the result is committed by the action.
ViewerState == [view |-> view, echoes |-> echoes, vout |-> <<>>, vhist |-> vhist]

CommitController(c) ==
    /\ view' = c.view
    /\ echoes' = c.echoes
    /\ vout' = c.vout
    /\ vhist' = c.vhist

CommitViewer(c) == CommitController(c) /\ UNCHANGED <<workerVars, link>>

\* _ind_continuous_grab before value_changed creates it
Unset == -1

\* a DataToExport: the raw channels and the data the viewers sent back;
\* tag tells the objects apart (0: None)
NoExport == [tag |-> 0, data |-> <<>>, frags |-> <<>>]
DataToExport(tag, data) == [tag |-> tag, data |-> data, frags |-> <<>>]

\* batches the plugin delivers to the controller: one value per channel
ViewerBatches(k) == [1..k -> {Rat(1, 1), Rat(2, 1)}]

ViewerEvent(sig, cmd, export) ==
    [sig |-> sig, cmd |-> cmd, export |-> export, attribute |-> 0]
ViewerEmitted(c, e) == [c EXCEPT !.vout = Append(@, e)]

NoExports == [nBatches |-> 0, done |-> <<>>, nEcho |-> 0, forwarded |-> FALSE,
              sent |-> NoExport]

\* _add_data_to_saver: the calls of the saver, add_data and, on the first step
\* of a session, add_bkg
_add_data_to_saver(c, data, init_step) ==
    LET c1 == ViewerEmitted(c, ViewerEvent("add_data", "", data))
    IN  IF init_step /\ c.view._do_bkg /\ c.view._bkg # NoExport
        THEN ViewerEmitted(c1, ViewerEvent("add_bkg", "", c.view._bkg))
        ELSE c1

\* _save_data: self._add_data_to_saver(data), init_step left at its default
_save_data(c, data) ==
    ViewerEmitted(_add_data_to_saver(c, data, FALSE), ViewerEvent("data_saved", "", data))

\* _save_export_data, the slot connected to grab_done_signal
_save_export_data_keeps_flag(c, data) ==
    IF c.view._do_save_data THEN _save_data(c, data) ELSE c

_save_export_data(c, data) ==
    IF c.view._do_save_data
    THEN [_save_data(c, data) EXCEPT !.view._do_save_data = FALSE]
    ELSE c

\* append_data, connected to grab_done_signal while continuous saving is on
append_data(c) ==
    [_add_data_to_saver(c, c.view._data_to_save_export, c.view.N_saved = 0)
        EXCEPT !.view.N_saved = @ + 1]

\* self._grab_done = True; self.grab_done_signal.emit(self._data_to_save_export)
grab_done_signal(c) ==
    LET export == c.view._data_to_save_export
        c1 == [ViewerEmitted(c, ViewerEvent("grab_done_signal", "", export)) EXCEPT
                  !.view._grab_done = TRUE,
                  !.vhist.done[export.tag] = Min(@ + 1, 2),
                  !.vhist.sent = export]
        c2 == _save_export_data(c1, export)
    IN  IF c2.view.append_connected THEN append_data(c2) ELSE c2

\* the slot without its test of the export
_get_data_from_viewer_untested(c, data) ==
    LET c1 == [c EXCEPT !.view._received_data = @ + 1, !.vhist.nEcho = @ + 1]
    IN  IF c1.view._received_data = c1.view.viewers THEN grab_done_signal(c1) ELSE c1

AllReceived_first(received, viewers) == received >= 1
AllReceived(received, viewers) == received = viewers

_get_data_from_viewer(c, data) ==
    IF c.view._data_to_save_export # NoExport
    THEN LET c1 == [c EXCEPT !.view._received_data = @ + 1,
                             !.vhist.nEcho = @ + 1,
                             !.view._data_to_save_export.frags =
                                 IF Len(data) # 0 THEN @ \o data ELSE @]
         IN  IF AllReceived(c1.view._received_data, c1.view.viewers)
             THEN grab_done_signal(c1)
             ELSE c1
    ELSE c

RatGeq(a, b) == a.num * b.den >= b.num * a.den
RatMinus(a, b) == Rat(a.num * b.den - b.num * a.den, a.den * b.den)

_process_overshoot(c, data) ==
    IF c.view.settings.stop_overshoot
    THEN LET over == SelectSeq(data, LAMBDA x : RatGeq(x, c.view.settings.overshoot_value))
         IN  [c EXCEPT !.vout = @ \o [i \in 1..Len(over) |->
                                         ViewerEvent("overshoot_signal", "", NoExport)]]
    ELSE c

\* ui.update_viewers: one viewer per channel; the viewers setter disconnects
\* the viewers it replaces
update_viewers(c, data) ==
    IF c.view.viewers # Len(data)
    THEN [c EXCEPT !.view.viewers = Len(data),
                   !.echoes.pending = [tag \in DOMAIN @ |-> 0]]
    ELSE c

_init_show_data(c, data) ==
    LET c1 == _process_overshoot(c, data)
    IN  IF c1.view.ui THEN update_viewers(c1, data) ELSE c1

\* DataToExport.average(other, weight)
average(export, other, weight) ==
    [export EXCEPT !.data = [i \in DOMAIN export.data |->
                                IncMean(weight, export.data[i], other.data[i])]]

\* viewers[ind].show_data(data) for every channel: each viewer will send the
\* data of its regions of interest back (the slot does not tell the viewers
\* apart: echoes.pending counts, for every batch, the viewers yet to answer)
set_data_to_viewers(c, data_to_plot) ==
    [c EXCEPT !.echoes.shown = data_to_plot,
              !.echoes.pending[data_to_plot.tag] = @ + Len(data_to_plot.data)]

\* lines 778-780 of show_data
store_bkg_every_batch(c) == [c EXCEPT !.view._bkg = c.view._data_to_save_export]
store_bkg(c) ==
    IF c.view._take_bkg
    THEN [c EXCEPT !.view._bkg = c.view._data_to_save_export, !.view._take_bkg = FALSE]
    ELSE c

\* DataToExport.__isub__: data_to_plot -= bkg, channel by channel
isub(data_to_plot, bkg) ==
    [data_to_plot EXCEPT !.data = [i \in DOMAIN @ |-> RatMinus(@[i], bkg.data[i])]]

\* lines 791-795 of show_data: data_to_plot is a deep copy of the export
process_bkg_shared(c, export) ==
    LET data_to_plot == isub(export, c.view._bkg)
    IN  IF c.view._do_bkg /\ c.view._bkg # NoExport
        THEN set_data_to_viewers([c EXCEPT !.view._bkg = data_to_plot], data_to_plot)
        ELSE set_data_to_viewers(c, export)

\* as if the subtraction were tried without a Background, and failed
process_bkg_needs_bkg(c, export) ==
    IF c.view._do_bkg
    THEN IF c.view._bkg # NoExport /\ Len(c.view._bkg.data) = Len(export.data)
         THEN set_data_to_viewers(c, isub(export, c.view._bkg))
         ELSE c
    ELSE set_data_to_viewers(c, export)

\* the subtraction done on the export itself, with no copy
process_bkg_in_place(c, export) ==
    IF c.view._do_bkg /\ c.view._bkg # NoExport /\ Len(c.view._bkg.data) = Len(export.data)
    THEN set_data_to_viewers([c EXCEPT !.view._data_to_save_export = isub(export, c.view._bkg)],
                             isub(export, c.view._bkg))
    ELSE set_data_to_viewers(c, export)

process_bkg(c, export) ==
    LET bkg == c.view._bkg
    IN  IF c.view._do_bkg /\ bkg # NoExport
        THEN IF Len(bkg.data) = Len(export.data)
             THEN set_data_to_viewers(c, isub(export, bkg))
             ELSE c     \* the subtraction raises: caught and logged
        ELSE set_data_to_viewers(c, export)

Refresh_always(grabing, elapsed, refresh_time) == TRUE
Refresh(grabing, elapsed, refresh_time) == IF grabing THEN elapsed > refresh_time ELSE TRUE

Forwarded(ui, show, refresh) == ui /\ show /\ refresh

show_data(c, data) ==
    LET v == c.view
        c1 == IF v.settings.tcp_connected /\ v._send_to_tcpip
              THEN ViewerEmitted(c, ViewerEvent("_command_tcpip", "data_ready", NoExport))
              ELSE c
        c2 == _init_show_data(c1, data)
        tag == c.vhist.nBatches + 1
        raw == DataToExport(tag, data)
        c3 == [c2 EXCEPT !.view._data_to_save_export = raw,
                         !.echoes.pending = Append(@, 0),
                         !.vhist.nBatches = tag, !.vhist.done = Append(@, 0),
                         !.vhist.nEcho = 0, !.vhist.forwarded = FALSE]
        ind == v._ind_continuous_grab + 1
        c4 == IF v.settings.live_averaging
              THEN [c3 EXCEPT !.view._current_data = raw,
                              !.view._ind_continuous_grab = ind,
                              !.view._data_to_save_export =
                                  IF ind > 1 THEN average(raw, raw, ind) ELSE raw]
              ELSE c3
        c5 == store_bkg(c4)
        refresh == Refresh(v._grabing, v.elapsed, v.settings.refresh_time)
        c6 == IF v._grabing /\ refresh THEN [c5 EXCEPT !.view.elapsed = 0] ELSE c5
        export == c6.view._data_to_save_export
    IN  IF v.settings.live_averaging /\ v._ind_continuous_grab = Unset
        THEN c3         \* the attribute does not exist: caught and logged
        ELSE IF Forwarded(v.ui, v.settings.show_data, refresh)
        THEN LET c7 == [c6 EXCEPT !.view._received_data = 0, !.vhist.forwarded = TRUE]
             IN  process_bkg(c7, export)
        ELSE grab_done_signal(c6)

\* set_data_to_viewers(data, temp=True), lines 823-843: viewers[ind].
\* show_data_temp(data) for every channel; the viewers display the data and
\* send nothing back
set_data_to_viewers_temp(c, data) ==
    ViewerEmitted(c, ViewerEvent("viewers.show_data_temp", "", DataToExport(0, data)))

\* temporary data handled as the data of a grab
show_temp_data_as_final(c, data) == show_data(c, data)

\* DAQ_Viewer.show_temp_data, lines 722-734
show_temp_data(c, data) ==
    LET c1 == _init_show_data(c, data)
    IN  IF c1.view.ui THEN set_data_to_viewers_temp(c1, data) ELSE c1

\* ------------------------------------------------ controller: user commands
command_hardware(c, command, attribute) ==
    ViewerEmitted(c, [ViewerEvent("command_hardware", command, NoExport)
                         EXCEPT !.attribute = attribute])

\* init_signal.emit(self._initialized_state)
init_signal(c) ==
    ViewerEmitted(c, ViewerEvent("init_signal",
                                 IF c.view._initialized_state THEN "True" ELSE "False",
                                 NoExport))

\* lines 1014-1026 of thread_status: quit() and wait() have returned (the
\* worker's thread is not running any more, or was never started); a thread
\* that isFinished() does not report is terminated
ThreadClosed(c) ==
    LET th == IF c.view._hardware_thread \in {"running", "quitting"}
              THEN "finished" ELSE c.view._hardware_thread
    IN  IF th \in {"finished", "terminated"}
        THEN [c EXCEPT !.view._hardware_thread = th]
        ELSE ViewerEmitted([c EXCEPT !.view._hardware_thread = "terminated"],
                           ViewerEvent("update_status", "thread is locked?!", NoExport))

custom_sig(c, status) == ViewerEmitted(c, ViewerEvent("custom_sig", status.command, NoExport))
Raised(c, status) == ViewerEmitted(c, ViewerEvent("raise", status.command, NoExport))

\* init_hardware with the mutated else branch: the state is set by the call
init_hardware_sets_state(c, do_init, in_thread) ==
    IF do_init
    THEN [command_hardware(c, "ini_detector", 0) EXCEPT !.view._initialized_state = TRUE]
    ELSE command_hardware(c, "close", 0)

\* DAQ_Viewer.init_hardware, lines 394-437: in_thread is the configuration
\* entry viewer_in_thread
init_hardware(c, do_init, in_thread) ==
    IF do_init
    THEN command_hardware([c EXCEPT !.view._hardware_thread =
                                        IF in_thread THEN "running" ELSE "not_started"],
                          "ini_detector", 0)
    ELSE command_hardware(c, "close", 0)

DAQ_Viewer_stop(c) == [command_hardware(c, "stop_all", 0) EXCEPT !.view._grabing = FALSE]

StatusCommands ==
    {"Update_Status", "ini_detector", "close", "grab", "grab_stopped", "x_axis", "y_axis",
     "update_channels", "update_main_settings", "update_settings", "raise_timeout",
     "show_splash", "close_splash", "init_lcd", "lcd", "stop", "other"}

ReEmit(c, status, raised) == IF raised THEN Raised(c, status) ELSE custom_sig(c, status)

thread_status(c, status) ==
    LET cmd == status.command
        v == c.view
        raised == \/ cmd \in {"show_splash", "close_splash"} /\ ~v.ui
                  \/ cmd = "lcd" /\ ~v._lcd
        c1 == CASE cmd = "ini_detector" ->
                     init_signal(IF status.attribute.initialized
                                 THEN [c EXCEPT !.view.controller = status.attribute.controller,
                                                !.view._initialized_state = TRUE]
                                 ELSE [c EXCEPT !.view._initialized_state = FALSE])
                [] cmd = "close" ->
                     init_signal([ThreadClosed(c) EXCEPT !.view._initialized_state = FALSE])
                [] cmd \in {"grab", "grab_stopped"} ->
                     ViewerEmitted(c, ViewerEvent("grab_status", cmd, NoExport))
                [] cmd = "init_lcd" -> [c EXCEPT !.view._lcd = TRUE]
                [] cmd = "stop" -> DAQ_Viewer_stop(c)
                [] OTHER -> c
    IN  ReEmit(c1, status, raised)

DAQ_Viewer_grab_data_snap_last(c, grab_state, send_to_tcpip, snap_state) ==
    LET c1 == [c EXCEPT !.view._grabing = grab_state,
                        !.view._send_to_tcpip = send_to_tcpip,
                        !.view._grab_done = FALSE,
                        !.view.elapsed = 0]
        Naverage == c.view.settings.Naverage
    IN  IF grab_state
        THEN command_hardware(thread_status(c1, ThreadCommand("update_channels", 0)),
                              "grab", Naverage)
        ELSE IF snap_state THEN command_hardware(c1, "single", Naverage)
        ELSE command_hardware(c1, "stop_grab", 0)

DAQ_Viewer_grab_data(c, grab_state, send_to_tcpip, snap_state) ==
    LET c1 == [c EXCEPT !.view._grabing = grab_state,
                        !.view._send_to_tcpip = send_to_tcpip,
                        !.view._grab_done = FALSE,
                        !.view.elapsed = 0]
        Naverage == c.view.settings.Naverage
    IN  IF snap_state THEN command_hardware(c1, "single", Naverage)
        ELSE IF ~grab_state THEN command_hardware(c1, "stop_grab", 0)
        ELSE command_hardware(thread_status(c1, ThreadCommand("update_channels", 0)),
                              "grab", Naverage)

\* value_changed, the live_averaging parameter: the index is created, or reset,
\* when the parameter is switched on
value_changed_live_averaging_keeps_show(c, value) ==
    [c EXCEPT !.view.settings.live_averaging = value,
              !.view._ind_continuous_grab = IF value THEN 0 ELSE @]

value_changed_live_averaging(c, value) ==
    [c EXCEPT !.view.settings.live_averaging = value,
              !.view.settings.show_averaging = FALSE,
              !.view._ind_continuous_grab = IF value THEN 0 ELSE @]

\* value_changed, the show_averaging parameter (lines 858-860): live_averaging
\* is switched off and the new value is sent to the worker
value_changed_show_averaging(c, value) ==
    ViewerEmitted([c EXCEPT !.view.settings.show_averaging = value,
                            !.view.settings.live_averaging = FALSE],
                  ViewerEvent("_update_settings_signal", "show_averaging", NoExport))

\* _init_continuous_save, on a change of the do_save parameter: a new session
\* of the enlargeable saver, append_data connected or disconnected
_init_continuous_save(c, do_save) ==
    [c EXCEPT !.view.append_connected = do_save,
              !.view.N_saved = IF do_save THEN 0 ELSE @]

\* insert_data of the scan: the first step is the one at indexes all zero
insert_data(c, first) == _add_data_to_saver(c, c.view._data_to_save_export, first)

\* DAQ_Viewer.snapshot: without a pathname it raises before the grab
snapshot(c, pathname, dosave, send_to_tcpip) ==
    LET c1 == [c EXCEPT !.view._do_save_data = dosave]
    IN  IF pathname = "None" THEN c1
        ELSE DAQ_Viewer_grab_data(c1, FALSE, send_to_tcpip, TRUE)

\* DAQ_Viewer.save_new: pathname is what select_file returned
save_new(c, pathname) == snapshot([c EXCEPT !.view._do_save_data = TRUE], pathname, TRUE, FALSE)

\* DAQ_Viewer.save_current: the slot is called at once on the current export;
\* before any batch there is none, and the saver accepts or refuses None
save_current(c, ans) ==
    LET c1 == [c EXCEPT !.view._do_save_data = TRUE]
    IN  IF c.view._data_to_save_export = NoExport /\ ans = "raises"
        THEN ViewerEmitted(c1, ViewerEvent("raise", "save_current", NoExport))
        ELSE _save_export_data(c1, c.view._data_to_save_export)

\* DAQ_Viewer.take_bkg
take_bkg(c) == DAQ_Viewer_grab_data([c EXCEPT !.view._take_bkg = TRUE], FALSE, FALSE, TRUE)

\* ------------------------------------------------------------------- Init
FreshDetector(hw) ==
    [waiting_for_data |-> FALSE, grab_state |-> FALSE, single_grab |-> FALSE,
     datas |-> NoData, ind_average |-> 0, Naverage |-> 0, average_done |-> FALSE,
     hardware_averaging |-> hw]

FreshViewer(ui, viewers, show) ==
    [ui |-> ui, viewers |-> viewers,
     _grabing |-> FALSE, _send_to_tcpip |-> FALSE, _grab_done |-> FALSE,
     _received_data |-> 0, _take_bkg |-> FALSE, _do_bkg |-> FALSE, _bkg |-> NoExport,
     _data_to_save_export |-> NoExport, _current_data |-> NoExport,
     _ind_continuous_grab |-> Unset, _do_save_data |-> FALSE,
     _initialized_state |-> FALSE, controller |-> "None", _lcd |-> FALSE, elapsed |-> 0,
     _hardware_thread |-> "running", append_connected |-> FALSE, N_saved |-> 0,
     settings |-> [show_data |-> show, live_averaging |-> FALSE, show_averaging |-> FALSE,
                   refresh_time |-> 1,
                   stop_overshoot |-> FALSE, overshoot_value |-> Rat(2, 1),
                   tcp_connected |-> FALSE, Naverage |-> 1]]

NoEchoes == [pending |-> <<>>, shown |-> NoExport, unasked |-> FALSE]

\* nothing in flight between controller and worker, the controller not waiting
NoLink == [cmd |-> "none", status |-> "none", waiting |-> FALSE, phase |-> "open"]

\* the controller of the worker specifications: headless and never called
ViewerAtRest ==
    /\ view = FreshViewer(FALSE, 0, TRUE)
    /\ echoes = NoEchoes
    /\ vout = <<>>
    /\ vhist = NoExports
    /\ link = NoLink

Init ==
    /\ \E hw \in BOOLEAN, lma \in BOOLEAN :
          /\ det = FreshDetector(hw)
          /\ drv = Plugin(lma, hw, "initialized")
    /\ stack = <<>>
    /\ out = <<>>
    /\ hist = NewCycle
    /\ ViewerAtRest

\* ---------------------------------------------------------------- actions
\* The worker's event loop, or a processEvents call of a suspended handler,
\* delivers a command of the controller (command_hardware) to queue_command.
Handle(command, ans, datas) ==
    LET s1 == queue_command(WorkerState, command, ans, datas)
    IN  /\ Len(s1.stack) <= MaxDepth
        /\ s1.drv.inFlight <= MaxInFlight
        /\ Commit(s1)

HandleGrab(Naverage, ans, datas) == Handle(ThreadCommand("grab", Naverage), ans, datas)
HandleSingle(Naverage, ans, datas) == Handle(ThreadCommand("single", Naverage), ans, datas)
HandleStopGrab == Handle(ThreadCommand("stop_grab", 0), "async", NoData)
HandleStopAll == Handle(ThreadCommand("stop_all", 0), "async", NoData)

\* processEvents returns to the acquisition loop that called it.
LoopResume(ans, datas) ==
    /\ stack # <<>>
    /\ Top(stack).kind = "grab_data"
    /\ LET s1 == loop_iteration(WorkerState, ans, datas)
       IN  /\ s1.drv.inFlight <= MaxInFlight
           /\ Commit(s1)

StopAllResume ==
    /\ stack # <<>>
    /\ Top(stack).kind = "stop_all"
    /\ Commit(stop_all_resume(WorkerState))

\* A queued data callback of the plugin is delivered to data_ready.
DataCallback(datas) ==
    /\ drv.inFlight > 0 \/ drv.streaming
    /\ LET s0 == [WorkerState EXCEPT !.drv.inFlight = IF @ > 0 THEN @ - 1 ELSE 0]
       IN  Commit(data_ready(s0, datas))

Next ==
    \/ \E n \in 1..MaxN, ans \in Answers : \E b \in AnswerData(ans, OneBatch) : HandleGrab(n, ans, b)
    \/ \E n \in 1..MaxN, ans \in Answers : \E b \in AnswerData(ans, OneBatch) : HandleSingle(n, ans, b)
    \/ HandleStopGrab
    \/ HandleStopAll
    \/ \E ans \in Answers : \E b \in AnswerData(ans, OneBatch) : LoopResume(ans, b)
    \/ StopAllResume
    \/ \E b \in OneBatch : DataCallback(b)

Spec == Init /\ [][Next]_vars

\* ------------------------------------------------- the averaging model
\* One acquisition at a time, started when the worker is idle and the plugin
\* is quiet, with software averaging and samples that differ.
Idle == stack = <<>> /\ drv.inFlight = 0 /\ ~drv.streaming

InitAvg ==
    /\ det = FreshDetector(FALSE)
    /\ \E lma \in BOOLEAN : drv = Plugin(lma, FALSE, "initialized")
    /\ stack = <<>>
    /\ out = <<>>
    /\ hist = NewCycle
    /\ ViewerAtRest

GrabFromIdle(Naverage, ans, datas) == Idle /\ HandleGrab(Naverage, ans, datas)
SingleFromIdle(Naverage, ans, datas) == Idle /\ HandleSingle(Naverage, ans, datas)

NextAvg ==
    \/ \E n \in 1..MaxAvg, ans \in Answers : \E b \in AnswerData(ans, Batches) : GrabFromIdle(n, ans, b)
    \/ \E n \in 1..MaxAvg, ans \in Answers : \E b \in AnswerData(ans, Batches) : SingleFromIdle(n, ans, b)
    \/ HandleStopGrab
    \/ \E ans \in Answers : \E b \in AnswerData(ans, Batches) : LoopResume(ans, b)
    \/ \E b \in Batches : DataCallback(b)

SpecAvg == InitAvg /\ [][NextAvg]_vars

\* ----------------------------------------------- the single-grab model
\* Single grabs only, one after the other, on a plugin without live mode
\* that answers each request with one data callback; no stop command.
InitSingle ==
    /\ det = FreshDetector(FALSE)
    /\ drv = Plugin(FALSE, FALSE, "initialized")
    /\ stack = <<>>
    /\ out = <<>>
    /\ hist = NewCycle
    /\ ViewerAtRest

NextSingle ==
    \/ \E n \in 1..MaxAvg, ans \in Answers : \E b \in AnswerData(ans, Batches) : SingleFromIdle(n, ans, b)
    \/ \E ans \in Answers : \E b \in AnswerData(ans, Batches) : LoopResume(ans, b)
    \/ \E b \in Batches : DataCallback(b)

\* processEvents returns, and the plugin delivers the callback it owes.
SpecSingle ==
    /\ InitSingle
    /\ [][NextSingle]_vars
    /\ WF_vars(\E ans \in Answers : \E b \in AnswerData(ans, Batches) : LoopResume(ans, b))
    /\ WF_vars(\E b \in Batches : DataCallback(b))

\* ------------------------------------------------- requests that raise
\* Single grabs as in SpecSingle on a plugin whose grab_data may raise, at
\* most MaxFaults times
FailAnswers == Answers \cup {"raises"}
MayFail(ans) == ans = "raises" => drv.faults < MaxFaults

NextFail ==
    \/ \E n \in 1..MaxAvg, ans \in FailAnswers : \E b \in AnswerData(ans, Batches) :
          MayFail(ans) /\ SingleFromIdle(n, ans, b)
    \/ \E ans \in FailAnswers : \E b \in AnswerData(ans, Batches) :
          MayFail(ans) /\ LoopResume(ans, b)
    \/ \E b \in Batches : DataCallback(b)

\* processEvents returns, and the plugin delivers the callbacks it owes
SpecFail ==
    /\ InitSingle
    /\ [][NextFail]_vars
    /\ WF_vars(\E ans \in FailAnswers : \E b \in AnswerData(ans, Batches) :
                   MayFail(ans) /\ LoopResume(ans, b))
    /\ WF_vars(\E b \in Batches : DataCallback(b))

\* ------------------------------------------------- the life of the worker
\* from the construction of DAQ_Detector: every command of queue_command in
\* every state of the plugin, grabs of one sample
InitLife ==
    /\ det = FreshDetector(FALSE)
    /\ \E lma \in BOOLEAN, hw \in BOOLEAN : drv = Plugin(lma, hw, "None")
    /\ stack = <<>>
    /\ out = <<>>
    /\ hist = NewCycle
    /\ ViewerAtRest

HandleIni(ans) == Handle(ThreadCommand("ini_detector", 0), ans, NoData)
HandleClose(ans) == Handle(ThreadCommand("close", 0), ans, NoData)
HandlePlugin(cmd, ans) == Handle(ThreadCommand(cmd, 0), ans, NoData)
HandleWaitTime == Handle(ThreadCommand("update_wait_time", 0), "ok", NoData)

CallAnswers == {"ok", "raises"}

NextLife ==
    \/ \E ans \in IniAnswers : HandleIni(ans)
    \/ \E ans \in CloseAnswers : HandleClose(ans)
    \/ \E cmd \in PluginCommands, ans \in CallAnswers : HandlePlugin(cmd, ans)
    \/ \E ans \in CallAnswers \cup {"no_method"} : HandlePlugin("custom", ans)
    \/ HandleWaitTime
    \/ \E ans \in Answers : \E b \in AnswerData(ans, OneBatch) : GrabFromIdle(1, ans, b)
    \/ \E ans \in Answers : \E b \in AnswerData(ans, OneBatch) : SingleFromIdle(1, ans, b)
    \/ HandleStopGrab
    \/ HandleStopAll
    \/ \E ans \in Answers : \E b \in AnswerData(ans, OneBatch) : LoopResume(ans, b)
    \/ StopAllResume
    \/ \E b \in OneBatch : DataCallback(b)

SpecLife == InitLife /\ [][NextLife]_vars

\* ------------------------------------------------ the controller's handlers
\* the worker is not run: the batches and statuses it sends are inputs;
\* SpecViewer is the aggregation of one export per batch outside a live grab
InitViewer ==
    /\ det = FreshDetector(FALSE)
    /\ drv = Plugin(FALSE, FALSE, "initialized")
    /\ stack = <<>>
    /\ out = <<>>
    /\ hist = NewCycle
    /\ \E ui \in BOOLEAN, show \in BOOLEAN :
          \E k \in (IF ui THEN 1..MaxViewers ELSE {0}) : view = FreshViewer(ui, k, show)
    /\ echoes = NoEchoes
    /\ vout = <<>>
    /\ vhist = NoExports
    /\ link = NoLink

\* data_grabed_signal of the plugin: the show_data slot
ShowData(data) ==
    /\ vhist.nBatches < MaxBatches
    /\ view.ui => Len(data) = view.viewers
    /\ CommitViewer(show_data(ViewerState, data))

\* data_to_export_signal of a viewer that was shown data
ViewerEcho(tag, data) ==
    /\ tag \in DOMAIN echoes.pending
    /\ echoes.pending[tag] > 0
    /\ view._received_data < MaxReceived
    /\ CommitViewer(_get_data_from_viewer(
           [ViewerState EXCEPT !.echoes.pending[tag] = @ - 1], data))

\* data_to_export_signal stays connected to the slot for as long as the viewer
\* is attached: a viewer may emit it once more for the data it shows
ViewerEmitsAgain ==
    /\ view.ui
    /\ echoes.shown # NoExport
    /\ echoes.pending[echoes.shown.tag] < view.viewers
    /\ CommitViewer([ViewerState EXCEPT !.echoes.pending[echoes.shown.tag] = @ + 1])

Tick ==
    /\ view.elapsed < MaxElapsed
    /\ CommitViewer([ViewerState EXCEPT !.view.elapsed = @ + 1])

UserGrab(grab_state, snap_state) ==
    CommitViewer(DAQ_Viewer_grab_data(ViewerState, grab_state, FALSE, snap_state))

UserStop == CommitViewer(DAQ_Viewer_stop(ViewerState))

ThreadStatus(status) == CommitViewer(thread_status(ViewerState, status))

\* the status edicts ini_detector sends
IniStatuses == {ini_detector(WorkerState, ans).status : ans \in IniAnswers}

Statuses ==
    {ThreadCommand(cmd, FALSE) : cmd \in StatusCommands \ {"ini_detector"}}
        \cup {ThreadCommand("ini_detector", st) : st \in IniStatuses}

\* the data a viewer sends back for a batch: nothing, or one fragment
EchoData(tag) == {<<>>, <<[of |-> tag]>>}

\* one batch for every number of channels
OneViewerBatch(k) == {[i \in 1..k |-> Rat(1, 1)]}

NextViewer ==
    \/ \E k \in 1..MaxViewers : \E data \in OneViewerBatch(k) : ShowData(data)
    \/ \E tag \in 1..MaxBatches : \E data \in EchoData(tag) : ViewerEcho(tag, data)
    \/ ViewerEmitsAgain

SpecViewer == InitViewer /\ [][NextViewer]_vars

\* the statuses of the worker, between the user's grab and stop commands
NextStatus ==
    \/ \E status \in Statuses : ThreadStatus(status)
    \/ Tick
    \/ \E grab_state \in BOOLEAN, snap_state \in BOOLEAN : UserGrab(grab_state, snap_state)
    \/ UserStop

SpecStatus == InitViewer /\ [][NextStatus]_vars

\* the initialization requests of the user between the statuses
InitHardware(do_init, in_thread) ==
    CommitViewer(init_hardware(ViewerState, do_init, in_thread))

NextInit ==
    \/ \E status \in Statuses : ThreadStatus(status)
    \/ \E do_init \in BOOLEAN, in_thread \in BOOLEAN : InitHardware(do_init, in_thread)
    \/ \E grab_state \in BOOLEAN, snap_state \in BOOLEAN : UserGrab(grab_state, snap_state)
    \/ UserStop

SpecInit == InitViewer /\ [][NextInit]_vars

\* ------------------------------------------------------ the user's commands
\* grab, snap and stop of the user between the batches of the worker and the
\* answers of the viewers
NextUser ==
    \/ \E k \in 1..MaxViewers : \E data \in OneViewerBatch(k) : ShowData(data)
    \/ \E tag \in 1..MaxBatches : \E data \in EchoData(tag) : ViewerEcho(tag, data)
    \/ \E grab_state \in BOOLEAN, snap_state \in BOOLEAN : UserGrab(grab_state, snap_state)

SpecUser == InitViewer /\ [][NextUser]_vars

\* the same commands and take_bkg with the refresh clock running, for every
\* averaging count of the settings, with live averaging off, on as loaded
\* (_ind_continuous_grab not created) or switched on by the user (line 866);
\* the viewers do not answer
InitRefresh ==
    /\ det = FreshDetector(FALSE)
    /\ drv = Plugin(FALSE, FALSE, "initialized")
    /\ stack = <<>>
    /\ out = <<>>
    /\ hist = NewCycle
    /\ \E ui \in BOOLEAN, show \in BOOLEAN, n \in 1..MaxN :
          \E k \in (IF ui THEN 1..MaxViewers ELSE {0}) :
             \E live \in {<<FALSE, Unset>>, <<TRUE, Unset>>, <<TRUE, 0>>} :
                view = [FreshViewer(ui, k, show) EXCEPT
                           !.settings.Naverage = n,
                           !.settings.live_averaging = live[1],
                           !._ind_continuous_grab = live[2]]
    /\ echoes = NoEchoes
    /\ vout = <<>>
    /\ vhist = NoExports
    /\ link = NoLink

UserTakeBkg == CommitViewer(take_bkg(ViewerState))

NextRefresh ==
    \/ \E k \in 1..MaxViewers : \E data \in OneViewerBatch(k) : ShowData(data)
    \/ Tick
    \/ \E grab_state \in BOOLEAN, snap_state \in BOOLEAN : UserGrab(grab_state, snap_state)
    \/ UserTakeBkg

SpecRefresh == InitRefresh /\ [][NextRefresh]_vars

\* data_grabed_signal_temp of the plugin: the show_temp_data slot
ShowTempData(data) ==
    /\ view.ui => Len(data) = view.viewers
    /\ CommitViewer(show_temp_data(ViewerState, data))

\* data_to_export_signal of a viewer that was not shown the data of a grab
\* (its regions of interest are moved, or it answers temporary data)
ViewerEmitsUnasked(data) ==
    /\ view.ui
    /\ view._received_data < MaxReceived
    /\ CommitViewer(_get_data_from_viewer([ViewerState EXCEPT !.echoes.unasked = TRUE], data))

\* temporary data and unasked answers between the batches of a grab and the
\* viewers' answers
NextTemp ==
    \/ \E data \in EchoData(0) : ViewerEmitsUnasked(data)
    \/ vhist.nBatches < MaxSaved
          /\ \E k \in 1..MaxViewers : \E data \in OneViewerBatch(k) : ShowData(data)
    \/ \E tag \in 1..MaxSaved : \E data \in EchoData(tag) : ViewerEcho(tag, data)
    \/ \E k \in 1..MaxViewers : \E data \in OneViewerBatch(k) : ShowTempData(data)
    \/ ~view._take_bkg /\ view._bkg = NoExport /\ UserTakeBkg

SpecTemp == InitViewer /\ [][NextTemp]_vars

\* ------------------------------------------------------------- the display
\* batches whose values differ, with the overshoot check on or off and the
\* background taken and subtracted at the user's wish; the viewers do not answer
InitDisplay ==
    /\ det = FreshDetector(FALSE)
    /\ drv = Plugin(FALSE, FALSE, "initialized")
    /\ stack = <<>>
    /\ out = <<>>
    /\ hist = NewCycle
    /\ \E k \in 1..MaxViewers, over \in BOOLEAN :
          view = [FreshViewer(TRUE, k, TRUE) EXCEPT !.settings.stop_overshoot = over]
    /\ echoes = NoEchoes
    /\ vout = <<>>
    /\ vhist = NoExports
    /\ link = NoLink

\* the setter of do_bkg
UserDoBkg(doit) ==
    /\ view._do_bkg # doit
    /\ CommitViewer([ViewerState EXCEPT !.view._do_bkg = doit])

NextDisplay ==
    \/ \E k \in 1..MaxViewers : \E data \in ViewerBatches(k) : ShowData(data)
    \/ UserTakeBkg
    \/ \E doit \in BOOLEAN : UserDoBkg(doit)

SpecDisplay == InitDisplay /\ [][NextDisplay]_vars

\* the same with the viewers answering, so that forwarded exports are emitted;
\* no overshoot test, and the channels of a batch hold one value
InitBkg == InitDisplay /\ ~view.settings.stop_overshoot

FlatBatches(k) == {[i \in 1..k |-> Rat(v, 1)] : v \in {1, 2}}

NextBkg ==
    \/ vhist.nBatches < MaxSaved
          /\ \E k \in 1..MaxViewers : \E data \in FlatBatches(k) : ShowData(data)
    \/ \E tag \in 1..MaxSaved : \E data \in EchoData(tag) : ViewerEcho(tag, data)
    \/ ~view._take_bkg /\ view._bkg = NoExport /\ UserTakeBkg
    \/ \E doit \in BOOLEAN : UserDoBkg(doit)

SpecBkg == InitBkg /\ [][NextBkg]_vars

\* ---------------------------------------------------------- live averaging
\* batches whose values differ, with live averaging loaded off or on and
\* switched by the user; the viewers do not answer
InitLive ==
    /\ det = FreshDetector(FALSE)
    /\ drv = Plugin(FALSE, FALSE, "initialized")
    /\ stack = <<>>
    /\ out = <<>>
    /\ hist = NewCycle
    /\ \E k \in 1..MaxViewers, show \in BOOLEAN, live \in BOOLEAN :
          view = [FreshViewer(TRUE, k, show) EXCEPT !.settings.live_averaging = live]
    /\ echoes = NoEchoes
    /\ vout = <<>>
    /\ vhist = NoExports
    /\ link = NoLink

UserLiveAveraging(value) ==
    /\ view.settings.live_averaging # value
    /\ CommitViewer(value_changed_live_averaging(ViewerState, value))

UserShowAveraging(value) ==
    /\ view.settings.show_averaging # value
    /\ CommitViewer(value_changed_show_averaging(ViewerState, value))

NextLive ==
    \/ \E k \in 1..MaxViewers : \E data \in ViewerBatches(k) : ShowData(data)
    \/ \E value \in BOOLEAN : UserLiveAveraging(value)
    \/ \E value \in BOOLEAN : UserShowAveraging(value)

SpecLive == InitLive /\ [][NextLive]_vars

\* ------------------------------------------------------------------ saving
\* the save requests of the user between the batches of the worker and the
\* answers of the viewers
Pathnames == {"None", "file"}

UserSaveNew(pathname) == CommitViewer(save_new(ViewerState, pathname))
UserSaveCurrent(ans) ==
    /\ ans = "raises" => view._data_to_save_export = NoExport
    /\ CommitViewer(save_current(ViewerState, ans))
Snapshot(pathname, dosave) == CommitViewer(snapshot(ViewerState, pathname, dosave, FALSE))

NextSave ==
    \/ \E k \in 1..MaxViewers : \E data \in OneViewerBatch(k) :
          vhist.nBatches < MaxSaved /\ ShowData(data)
    \/ \E tag \in 1..MaxBatches : \E data \in EchoData(tag) : ViewerEcho(tag, data)
    \/ \E pathname \in Pathnames : UserSaveNew(pathname)
    \/ \E ans \in CallAnswers : UserSaveCurrent(ans)
    \/ \E pathname \in Pathnames, dosave \in BOOLEAN : Snapshot(pathname, dosave)

SpecSave == InitViewer /\ [][NextSave]_vars

\* the three ways of writing, with a Background taken and in use or not, on a
\* controller without user interface: every batch is finalized at once
ContinuousSave(do_save) ==
    /\ view.append_connected # do_save
    /\ CommitViewer(_init_continuous_save(ViewerState, do_save))

InsertData(first) ==
    /\ view._data_to_save_export # NoExport
    /\ CommitViewer(insert_data(ViewerState, first))

NextSession ==
    \/ \E data \in OneViewerBatch(1) : vhist.nBatches < MaxSaved /\ ShowData(data)
    \/ UserSaveNew("file")
    \/ UserSaveCurrent("ok")
    \/ UserTakeBkg
    \/ \E doit \in BOOLEAN : UserDoBkg(doit)
    \/ \E do_save \in BOOLEAN : ContinuousSave(do_save)
    \/ \E first \in BOOLEAN : InsertData(first)

SpecSession == InitSingle /\ [][NextSession]_vars

\* ------------------------------------------------------ closing the worker
\* init_hardware(False) up to the end of the close branch of thread_status.
\* _hardware_thread is "running" when the worker was moved to its thread
\* (viewer_in_thread) and "not_started" when it lives in the controller's.
InitClose ==
    /\ det = FreshDetector(FALSE)
    /\ \E lma \in BOOLEAN : drv = Plugin(lma, FALSE, "initialized")
    /\ stack = <<>>
    /\ out = <<>>
    /\ hist = NewCycle
    /\ \E th \in {"running", "not_started"} :
          view = [FreshViewer(FALSE, 0, FALSE) EXCEPT !._initialized_state = TRUE,
                                                      !._hardware_thread = th]
    /\ echoes = NoEchoes
    /\ vout = <<>>
    /\ vhist = NoExports
    /\ link = NoLink

Threaded == view._hardware_thread # "not_started" /\ view._hardware_thread # "terminated"

\* the controller is in its event loop and sends a command (queued connection)
ControllerSends(A) == ~link.waiting /\ A

\* init_hardware(False), worker in its own thread: the close command is queued
CloseRequest ==
    /\ Threaded
    /\ link.phase = "open"
    /\ CommitController(command_hardware(ViewerState, "close", 0))
    /\ link' = [link EXCEPT !.cmd = "close", !.phase = "close_requested"]
    /\ UNCHANGED workerVars

\* init_hardware(False), worker in the controller's thread: the connections are
\* direct, queue_command and thread_status run inside the emit
CloseDirect(ans) ==
    /\ ~Threaded
    /\ link.phase = "open"
    /\ CommitWorker(queue_command(WorkerState, ThreadCommand("close", 0), ans, NoData))
    /\ CommitController(thread_status(command_hardware(ViewerState, "close", 0),
                                      ThreadCommand("close", FALSE)))
    /\ link' = [link EXCEPT !.phase = "done"]

\* the worker's event loop, or a processEvents of its grab loop, delivers close
WorkerTakesClose(ans) ==
    /\ link.cmd = "close"
    /\ CommitWorker(queue_command(WorkerState, ThreadCommand("close", 0), ans, NoData))
    /\ link' = [link EXCEPT !.cmd = "none", !.status = "close"]
    /\ UNCHANGED viewerVars

\* thread_status, lines 1013-1017: quit(), then wait() with no timeout
ControllerTakesCloseStatus ==
    /\ link.status = "close"
    /\ CommitController([ViewerState EXCEPT !.view._hardware_thread = "quitting"])
    /\ link' = [link EXCEPT !.status = "none", !.waiting = TRUE]
    /\ UNCHANGED workerVars

\* the thread's exec() returns once control is back in its event loop
WorkerThreadFinishes ==
    /\ view._hardware_thread = "quitting"
    /\ stack = <<>>
    /\ CommitController([ViewerState EXCEPT !.view._hardware_thread = "finished"])
    /\ UNCHANGED <<workerVars, link>>

\* wait() returns, thread_status goes on from line 1018 to its end
CloseWaitReturns ==
    /\ link.waiting
    /\ view._hardware_thread = "finished"
    /\ CommitController(thread_status(ViewerState, ThreadCommand("close", FALSE)))
    /\ link' = [link EXCEPT !.waiting = FALSE, !.phase = "done"]
    /\ UNCHANGED workerVars

WorkerRuns ==
    \/ \E ans \in Answers : \E b \in AnswerData(ans, OneBatch) : LoopResume(ans, b)
    \/ \E b \in OneBatch : DataCallback(b)

\* a thread that has left exec() handles no event any more
WorkerAlive == view._hardware_thread # "finished"

NextClose ==
    \/ CloseRequest
    \/ \E ans \in CloseAnswers : CloseDirect(ans)
    \/ \E ans \in CloseAnswers : WorkerTakesClose(ans)
    \/ ControllerTakesCloseStatus
    \/ WorkerThreadFinishes
    \/ CloseWaitReturns
    \/ WorkerAlive /\ WorkerRuns
    \/ link.phase = "open"      \* a grab is started on an initialized detector
          /\ ControllerSends(\E ans \in Answers : \E b \in AnswerData(ans, OneBatch) :
                                 GrabFromIdle(1, ans, b))
    \/ ControllerSends(HandleStopGrab)

\* every thread that can run does run: the worker's and the controller's
\* event loops deliver what is queued
SpecClose ==
    /\ InitClose
    /\ [][NextClose]_vars
    /\ WF_vars(\E ans \in CloseAnswers : WorkerTakesClose(ans))
    /\ WF_vars(ControllerTakesCloseStatus)
    /\ WF_vars(WorkerThreadFinishes)
    /\ WF_vars(CloseWaitReturns)
    /\ WF_vars(WorkerAlive /\ WorkerRuns)

\* ------------------------------------------------------------- properties
HasSig(o, sig) == \E i \in DOMAIN o : o[i].sig = sig
HasStatus(o, cmd) == \E i \in DOMAIN o : o[i].sig = "status_sig" /\ o[i].cmd = cmd
Requested(o) == HasSig(o, "detector.grab_data")
DataEmitted(o) == HasSig(o, "data_detector_sig")

\* the step ends the acquisition loop on top of the stack
LoopExits ==
    /\ stack # <<>>
    /\ Top(stack).kind = "grab_data"
    /\ Len(stack') < Len(stack)

\* C1: no step issues a hardware grab request while the data callback of an
\* earlier request is still owed (waiting_for_data is not set again before
\* data_ready cleared it).
C1_OneRequestInFlight == [][Requested(out') => drv.inFlight = 0]_vars

\* C2: with software averaging and target N the final batch is emitted on the
\* N-th data callback of a cycle and on no earlier one, once; at that
\* emission average_done is set and the counter is back to 0.
C2_EmitsOnNthCallback ==
    (~det.hardware_averaging /\ det.Naverage > 0) =>
        /\ Len(hist.samples) <= det.Naverage
        /\ hist.cycleDone <=> (Len(hist.samples) = det.Naverage)
        /\ hist.cycleDone => (det.average_done /\ det.ind_average = 0)
        /\ ~hist.cycleDone => (det.ind_average = Len(hist.samples))
        /\ DataEmitted(out) => hist.cycleDone

C2_Witness ==
    /\ ~det.hardware_averaging
    /\ det.Naverage = 2
    /\ DataEmitted(out)
    /\ Len(hist.samples) = 2
    /\ det.average_done
    /\ det.ind_average = 0

RECURSIVE SumCh(_, _)
SumCh(samples, ch) ==
    IF samples = <<>> THEN 0 ELSE Head(samples)[ch].num + SumCh(Tail(samples), ch)

MeanOf(samples) == [ch \in Channels |-> Rat(SumCh(samples, ch), Len(samples))]

\* C3: with software averaging the batch emitted after N samples is, in every
\* channel, the arithmetic mean of these N samples, and the running mean kept
\* between callbacks is the mean of the samples received so far.
C3_EmittedIsMean ==
    /\ \A i \in DOMAIN out :
          out[i].sig = "data_detector_sig" =>
              /\ Len(hist.samples) = det.Naverage
              /\ out[i].datas = MeanOf(hist.samples)
    /\ (hist.samples # <<>>) => (det.datas = MeanOf(hist.samples))

C3_Witness ==
    /\ det.Naverage = 3
    /\ \E i \in DOMAIN out :
          /\ out[i].sig = "data_detector_sig"
          /\ out[i].datas = [ch \in Channels |-> Rat(2, 1)]
    /\ hist.samples = <<[ch \in Channels |-> Rat(1, 1)],
                        [ch \in Channels |-> Rat(2, 1)],
                        [ch \in Channels |-> Rat(3, 1)]>>

\* C7: stop_grab clears the grabbing flag and issues no request; a loop that
\* resumes from processEvents with the flag cleared exits in that step without
\* a request; no request is ever issued with the flag cleared.
C7_StopGrabEndsLoop ==
    [][ /\ HandleStopGrab => (~det'.grab_state /\ ~Requested(out'))
        /\ Requested(out') => det'.grab_state
        /\ ((\E ans \in Answers : \E b \in AnswerData(ans, OneBatch) : LoopResume(ans, b))
               /\ ~det.grab_state)
              => (LoopExits /\ ~Requested(out') /\ HasStatus(out', "grab_stopped")) ]_vars

C7_Witness ==
    /\ HasStatus(out, "grab_stopped")
    /\ ~det.grab_state
    /\ ~det.single_grab
    /\ ~drv.live_mode_available
    /\ stack = <<>>

Quiet == stack = <<>> /\ drv.inFlight = 0

SingleDone ==
    /\ Quiet
    /\ hist.nReq = det.Naverage
    /\ hist.nEmit = 1
    /\ det.average_done

\* C8: a single grab with software averaging target N on a plugin without
\* live mode that answers each request once, with no stop command, ends: it
\* has issued N requests and emitted one batch, and its loop ends with a
\* grab_stopped status.
C8_SingleGrabTerminates ==
    /\ (stack # <<>>) ~> SingleDone
    /\ []((Quiet /\ det.Naverage > 0) => SingleDone)
    /\ [][LoopExits => (HasStatus(out', "grab_stopped") /\ hist'.nReq = det.Naverage)]_vars

C8_Witness ==
    /\ SingleDone
    /\ det.Naverage = 3
    /\ HasStatus(out, "grab_stopped")

\* C9 as stated: the loop exits only when (a) it is a single grab whose
\* averaged batch has been emitted, (b) the grabbing flag is cleared, or
\* (c) the plugin has live mode.
C9_ExitOnlyOnThree ==
    [][LoopExits =>
          \/ det.single_grab /\ Top(stack).emitted
          \/ ~det.grab_state
          \/ drv.live_mode_available]_vars

\* C9 amended: the loop exits only when (a) it is a single grab and the
\* plugin averages in hardware or average_done is set, (b) the grabbing flag
\* is cleared, or (c) the plugin has live mode; a single grab with software
\* averaging and a target above 1 on a plugin without live mode does not exit
\* before an averaged batch has been emitted, unless the flag is cleared.
C9_ExitConditions ==
    [][LoopExits =>
          /\ \/ det.single_grab /\ (det.hardware_averaging \/ det.average_done)
             \/ ~det.grab_state
             \/ drv.live_mode_available
          /\ (/\ det.single_grab
              /\ ~det.hardware_averaging
              /\ ~drv.live_mode_available
              /\ det.grab_state
              /\ Top(stack).Naverage > 1) => Top(stack).emitted]_vars

C9_Witness ==
    /\ HasStatus(out, "grab_stopped")
    /\ det.single_grab
    /\ det.grab_state
    /\ ~det.hardware_averaging
    /\ ~drv.live_mode_available
    /\ det.average_done
    /\ det.Naverage = 2
    /\ stack = <<>>

\* ------------------------------------------------ properties: aggregation
GrabDoneEvents(o) == {i \in DOMAIN o : o[i].sig = "grab_done_signal"}
GrabDone(o) == GrabDoneEvents(o) # {}
Export == view._data_to_save_export
EchoStep(tag, data) == ViewerEcho(tag, data)
AnyEchoStep == \E tag \in 1..MaxBatches : \E data \in EchoData(tag) : EchoStep(tag, data)
ShowStep == \E k \in 1..MaxViewers : \E data \in ViewerBatches(k) : ShowData(data)

\* C4: the export of a batch forwarded to the K viewers is emitted by
\* grab_done_signal exactly once, by the K-th data a viewer sends back after
\* the forward and by none before, and then holds the batch and exactly the
\* data sent back, in order (K fragments when every viewer sent one); without
\* a user interface (K = 0) show_data emits it at once, with no fragment.
C4_ExportAfterAllEchoes ==
    /\ [](/\ (Export # NoExport /\ vhist.forwarded) =>
                /\ view._received_data = vhist.nEcho
                /\ vhist.done[Export.tag] = (IF vhist.nEcho >= view.viewers THEN 1 ELSE 0)
                /\ Len(Export.frags) <= vhist.nEcho
                /\ vhist.nEcho = view.viewers => vhist.sent = Export
          /\ (Export # NoExport /\ ~view.ui) =>
                /\ vhist.done[Export.tag] = 1
                /\ Export.frags = <<>>
                /\ vhist.sent = Export)
    /\ [][/\ \A tag \in 1..MaxBatches : \A data \in EchoData(tag) :
                (EchoStep(tag, data) /\ vhist.forwarded) =>
                    /\ Export' = [Export EXCEPT !.frags = @ \o data]
                    /\ GrabDone(vout') <=> (vhist.nEcho + 1 = view.viewers)
                    /\ \A i \in GrabDoneEvents(vout') : vout'[i].export = Export'
                    /\ Cardinality(GrabDoneEvents(vout')) <= 1
          /\ ShowStep =>
                /\ Export'.frags = <<>>
                /\ vhist'.forwarded => (~GrabDone(vout') /\ view'._received_data = 0)
                /\ ~view.ui => (Cardinality(GrabDoneEvents(vout')) = 1 /\ ~vhist'.forwarded)
          /\ ~(AnyEchoStep \/ ShowStep) => ~GrabDone(vout')]_vars

C4_Witness ==
    /\ view.ui /\ view.viewers = 2 /\ vhist.forwarded
    /\ vhist.nEcho = 2 /\ Len(Export.frags) = 2
    /\ GrabDone(vout) /\ vout[1].export = Export
    /\ vhist.done[Export.tag] = 1

\* C5 as stated: while the export of a forwarded batch is not yet emitted no
\* batch replaces it, every data sent back by a viewer is appended to the
\* export of the batch it was computed from, and no export is emitted twice.
C5_OneOpenExport ==
    /\ [](/\ \A i \in DOMAIN Export.frags : Export.frags[i].of = Export.tag
          /\ \A tag \in DOMAIN vhist.done : vhist.done[tag] <= 1)
    /\ [][(Export # NoExport /\ vhist.forwarded /\ vhist.done[Export.tag] = 0)
              => Export'.tag = Export.tag]_vars

\* C6 as stated: with 2 viewers, once the 2nd data sent back has made the
\* controller emit the export, a 3rd one for the same batch emits nothing and
\* leaves the emitted export as it is.
C6_ThirdEchoIgnored ==
    [][\A tag \in 1..MaxBatches : \A data \in EchoData(tag) :
          (/\ EchoStep(tag, data)
           /\ view.viewers = 2 /\ vhist.forwarded /\ vhist.nEcho = 2
           /\ vhist.done[Export.tag] = 1 /\ tag = Export.tag)
              => (~GrabDone(vout') /\ Export' = Export)]_vars

\* ---------------------------------------------------- properties: statuses
CustomSigs(o, cmd) == {i \in DOMAIN o : o[i].sig = "custom_sig" /\ o[i].cmd = cmd}

\* C10 as stated: whatever status thread_status receives, and whether or not
\* there is a user interface or an LCD, it emits custom_sig with that status
\* exactly once.
C10_StatusReEmitted ==
    [][\A status \in Statuses :
          ThreadStatus(status) => Cardinality(CustomSigs(vout', status.command)) = 1]_vars

\* ------------------------------------------------- properties: worker life
StatusEvents(o, cmd) == {i \in DOMAIN o : o[i].sig = "status_sig" /\ o[i].cmd = cmd}
PluginCalls(o, cmd) == {i \in DOMAIN o : o[i].sig = "detector" /\ o[i].cmd = cmd}
Raises(o) == {i \in DOMAIN o : o[i].sig = "raise"}

\* C11: when the construction of the plugin or the plugin's ini_detector
\* raises, the handler returns without raising and emits one ini_detector
\* status whose result has initialized false and no controller handle (None,
\* or never set when the construction failed); afterwards the worker still
\* takes commands: a later ini_detector that succeeds reports initialized.
C11_InitFailureReported ==
    /\ [](ENABLED HandleIni("ok"))
    /\ [][/\ \A ans \in {"construct_raises", "init_raises"} :
                HandleIni(ans) =>
                    /\ Raises(out') = {}
                    /\ stack' = stack
                    /\ Cardinality(StatusEvents(out', "ini_detector")) = 1
                    /\ \A i \in StatusEvents(out', "ini_detector") :
                          /\ ~out'[i].datas.initialized
                          /\ out'[i].datas.controller \in {"None", "absent"}
          /\ HandleIni("ok") =>
                /\ Raises(out') = {}
                /\ \A i \in StatusEvents(out', "ini_detector") :
                      out'[i].datas.initialized /\ out'[i].datas.controller = "handle"
                /\ drv'.detector = "initialized"]_vars

C11_Witness ==
    /\ drv.detector = "built"
    /\ \E i \in StatusEvents(out, "ini_detector") :
          ~out[i].datas.initialized /\ out[i].datas.controller = "None"
    /\ Raises(out) = {}

\* C12: close calls the plugin's stop and then its close; when one of them
\* raises, or when there is no plugin object, the returned status is the
\* exception's text; in every case one close status is emitted and nothing
\* is raised out of the handler.
C12_CloseNeverRaises ==
    [][\A ans \in CloseAnswers :
          HandleClose(ans) =>
              /\ Raises(out') = {}
              /\ stack' = stack
              /\ Cardinality(StatusEvents(out', "close")) = 1
              /\ \A i \in StatusEvents(out', "close") :
                    /\ i = Len(out')
                    /\ (out'[i].datas.info = "exception")
                           <=> (~HasDetector(WorkerState) \/ ans # "ok")
              /\ HasDetector(WorkerState) =>
                    /\ PluginCalls(out', "stop") = {1}
                    /\ PluginCalls(out', "close") = (IF ans = "stop_raises" THEN {} ELSE {2})
              /\ ~HasDetector(WorkerState) =>
                    (PluginCalls(out', "stop") = {} /\ PluginCalls(out', "close") = {})]_vars

C12_Witness ==
    /\ drv.detector = "initialized"
    /\ PluginCalls(out, "stop") = {1} /\ PluginCalls(out, "close") = {2}
    /\ \E i \in StatusEvents(out, "close") : out[i].datas.info = "exception"
    /\ Raises(out) = {}

\* C13 as stated: no step of the worker (a command of queue_command in any
\* state of the plugin, a pass of the loop, a data callback) raises out of
\* its handler.
C13_NothingRaised == [](Raises(out) = {})

\* ---------------------------------------------------- properties: closing
\* C14: once close is requested the controller ends NotInitialized, having
\* emitted init_signal(False)
C14_CloseCompletes ==
    (link.phase = "close_requested") ~> (link.phase = "done" /\ ~view._initialized_state)

\* ------------------------------------------- properties: the user's commands
\* the steps of the controller's grab_data: it sends single, grab or stop_grab
GrabDataCalled(o) ==
    \E i \in DOMAIN o : o[i].sig = "command_hardware"
                        /\ o[i].cmd \in {"single", "grab", "stop_grab"}

\* C15: every call of grab_data leaves the count of received echoes at 0, the
\* completion flag false and the time since the start of the grab at 0
C15_GrabDataResets ==
    [][GrabDataCalled(vout') =>
          view'._received_data = 0 /\ ~view'._grab_done /\ view'.elapsed = 0]_vars

\* the commands sent to the worker in one step, as (command, attribute) pairs
CommandsSent(o) ==
    LET cmds == SelectSeq(o, LAMBDA e : e.sig = "command_hardware")
    IN  [i \in DOMAIN cmds |-> <<cmds[i].cmd, cmds[i].attribute>>]

\* C16: grab_data with snap_state sends one single command with the Naverage
\* of the settings and nothing else, whatever grab_state and the grabbing flag
\* are; without snap_state it sends grab if grab_state and stop_grab if not
C16_SnapSendsSingle ==
    [][\A grab_state \in BOOLEAN, snap_state \in BOOLEAN :
          UserGrab(grab_state, snap_state) =>
             IF snap_state
             THEN CommandsSent(vout') = << <<"single", view.settings.Naverage>> >>
             ELSE /\ Len(CommandsSent(vout')) = 1
                  /\ CommandsSent(vout')[1][1] = IF grab_state THEN "grab" ELSE "stop_grab"]_vars

\* a snap sent with grab_state true (the grabbing flag is set by the call),
\* with an averaging count other than the default
C16_Witness ==
    /\ CommandsSent(vout) = << <<"single", MaxN>> >>
    /\ view._grabing
    /\ view.settings.Naverage = MaxN

\* a step of show_data: one more batch handled
ShowDataStep == vhist'.nBatches = vhist.nBatches + 1

\* show_data leaves through its except clause before the background step
AbortsEarly(v) == v.settings.live_averaging /\ v._ind_continuous_grab = Unset

\* C17, as stated: the batch that follows take_bkg is stored as the Background,
\* the flag is disarmed, and the batch is not forwarded to the viewers (stated
\* for the calls that reach the background step)
C17_BkgNotForwarded ==
    [][ShowDataStep /\ view._take_bkg /\ ~AbortsEarly(view) =>
          /\ view'._bkg.tag = vhist'.nBatches
          /\ ~view'._take_bkg
          /\ ~vhist'.forwarded]_vars

\* C17, amended: a show_data call that reaches the background step with the
\* flag armed stores its export as the Background and disarms the flag, and
\* then forwards or emits the batch as it does any other; a call with the flag
\* disarmed, or one that fails before that step, leaves Background and flag
\* as they were
C17_BkgOneShot ==
    [][ShowDataStep =>
          IF view._take_bkg /\ ~AbortsEarly(view)
          THEN /\ view'._bkg = view'._data_to_save_export
               /\ view'._bkg.tag = vhist'.nBatches
               /\ ~view'._take_bkg
               /\ vhist'.forwarded =
                     Forwarded(view.ui, view.settings.show_data,
                               Refresh(view._grabing, view.elapsed, view.settings.refresh_time))
               /\ vhist'.forwarded => echoes'.shown.tag = vhist'.nBatches
               /\ ~vhist'.forwarded => vhist'.sent.tag = vhist'.nBatches
          ELSE view'._bkg = view._bkg /\ view'._take_bkg = view._take_bkg]_vars

\* the Background was taken from a batch that went to the viewers, and a
\* later batch has left it alone
C17_Witness ==
    /\ view._bkg # NoExport
    /\ ~view._take_bkg
    /\ vhist.nBatches > view._bkg.tag
    /\ vhist.forwarded
    /\ echoes.pending[view._bkg.tag] > 0

\* C18: while grabbing continuously a batch goes to the viewers only if more
\* than refresh_time has elapsed since the last refresh, and the time of the
\* last refresh is reset exactly by the calls that find it so; outside a
\* continuous grab every batch is refreshed (stated for the calls of show_data
\* that reach the refresh test)
C18_RefreshThrottled ==
    [][ShowDataStep /\ ~AbortsEarly(view) =>
          IF view._grabing
          THEN /\ vhist'.forwarded => view.elapsed > view.settings.refresh_time
               /\ view'.elapsed = IF view.elapsed > view.settings.refresh_time
                                  THEN 0 ELSE view.elapsed
               /\ (view.ui /\ view.settings.show_data
                      /\ view.elapsed > view.settings.refresh_time) => vhist'.forwarded
          ELSE /\ vhist'.forwarded = (view.ui /\ view.settings.show_data)
               /\ view'.elapsed = view.elapsed]_vars

\* a continuous grab whose first batch came too early for the viewers and was
\* emitted at once, and whose latest batch was shown
C18_Witness ==
    /\ view._grabing /\ view.ui /\ view.settings.show_data
    /\ vhist.nBatches >= 2
    /\ vhist.done[1] = 1
    /\ vhist.forwarded
    /\ view.elapsed = 0

\* ------------------------------------------------- properties: the display
OvershootAlerts(o) == Len(SelectSeq(o, LAMBDA e : e.sig = "overshoot_signal"))

\* some value of the batch is at or above the threshold
Overshoots(data, threshold) == \E i \in DOMAIN data : RatGeq(data[i], threshold)

\* C19: with the overshoot check on, a batch with a value at or above the
\* threshold fires exactly one alert and a batch below it fires none
C19_OneAlertPerBatch ==
    [][ShowDataStep /\ view.settings.stop_overshoot =>
          OvershootAlerts(vout') =
             IF Overshoots(view'._data_to_save_export.data, view.settings.overshoot_value)
             THEN 1 ELSE 0]_vars

\* a + b = c on the exact fractions
RatSum(a, b, c) == (a.num * b.den + b.num * a.den) * c.den = c.num * a.den * b.den

\* C20: a show_data call that does not capture a Background leaves the stored
\* one as it was, and what goes to the viewers with the subtraction on is, in
\* every channel, the one value that added to the Background gives the export
\* (so two copies of one export give the same result)
C20_BkgNotMutated ==
    [][ShowDataStep =>
          /\ ~view._take_bkg => view'._bkg = view._bkg
          /\ (vhist'.forwarded /\ view._do_bkg /\ view'._bkg # NoExport) =>
                /\ echoes'.shown.tag = vhist'.nBatches
                /\ \A i \in DOMAIN echoes'.shown.data :
                      RatSum(echoes'.shown.data[i], view'._bkg.data[i],
                             view'._data_to_save_export.data[i])
          /\ (vhist'.forwarded /\ ~(view._do_bkg /\ view'._bkg # NoExport)) =>
                echoes'.shown.data = view'._data_to_save_export.data]_vars

\* two batches after the one stored as Background, the latest shown with the
\* Background subtracted, which changed it
C20_Witness ==
    /\ view._do_bkg /\ view._bkg # NoExport
    /\ vhist.nBatches = view._bkg.tag + 2
    /\ echoes.shown.tag = vhist.nBatches
    /\ echoes.shown.data # view._data_to_save_export.data
    /\ \E i, j \in DOMAIN view._bkg.data : view._bkg.data[i] # view._bkg.data[j]

\* C21: with the subtraction switched on and no Background captured, the
\* batch goes to the viewers as it came, and the export holds it unchanged
C21_NoBkgNoSubtraction ==
    [][\A k \in 1..MaxViewers : \A data \in ViewerBatches(k) :
          (ShowData(data) /\ view._do_bkg /\ view._bkg = NoExport /\ ~view._take_bkg) =>
             /\ echoes'.shown = DataToExport(vhist'.nBatches, data)
             /\ view'._data_to_save_export = DataToExport(vhist'.nBatches, data)
             /\ view'._bkg = NoExport
             /\ vhist'.forwarded]_vars

\* a batch shown with the subtraction on and nothing to subtract
C21_Witness ==
    /\ view._do_bkg /\ view._bkg = NoExport /\ ~view._take_bkg
    /\ vhist.nBatches >= 1
    /\ vhist.forwarded
    /\ echoes.shown = view._data_to_save_export

\* ---------------------------------------------- properties: live averaging
\* C22: with live averaging on, the export after the n-th batch is the mean of
\* the n batches, ((n-1) * mean of the first n-1 + batch n) / n, and the
\* counter of cycles is n
C22_LiveCumulativeMean ==
    [][\A k \in 1..MaxViewers : \A data \in ViewerBatches(k) :
          (ShowData(data) /\ view.settings.live_averaging
              /\ view._ind_continuous_grab # Unset) =>
             LET n == view._ind_continuous_grab + 1
                 mean == view._data_to_save_export.data
             IN  /\ view'._ind_continuous_grab = n
                 /\ view'._data_to_save_export.data =
                       IF n = 1 THEN data
                       ELSE [i \in DOMAIN data |-> IncMean(n, mean[i], data[i])]]_vars

\* ------------------------------------------------------ properties: saving
Writes(o) == Len(SelectSeq(o, LAMBDA e : e.sig = "data_saved"))
Finalized(o) == Len(SelectSeq(o, LAMBDA e : e.sig = "grab_done_signal"))

\* C23, as stated: a write happens exactly when an export is finalized with
\* the save flag pending, there is one, and the flag is clear afterwards
C23_WriteOnNextFinalized ==
    [][/\ Writes(vout') = IF view._do_save_data /\ Finalized(vout') > 0 THEN 1 ELSE 0
       /\ Finalized(vout') > 0 => ~view'._do_save_data]_vars

\* C23, amended: an export finalized with the flag pending is written once and
\* the flag cleared, one finalized with the flag clear is not written; the only
\* other write is that of save_current, at once and of the current export;
\* save_new sets the flag and snapshot sets it to its dosave argument
C23_SaveFlagConsumedOnce ==
    [][/\ Finalized(vout') > 0 =>
             /\ Writes(vout') = IF view._do_save_data THEN 1 ELSE 0
             /\ ~view'._do_save_data
       /\ (Finalized(vout') = 0 /\ Writes(vout') > 0) =>
             /\ \E ans \in CallAnswers : UserSaveCurrent(ans)
             /\ vout' = << ViewerEvent("add_data", "", view._data_to_save_export),
                           ViewerEvent("data_saved", "", view._data_to_save_export) >>
             /\ ~view'._do_save_data
       /\ \A pathname \in Pathnames :
             UserSaveNew(pathname) => view'._do_save_data /\ Writes(vout') = 0
       /\ \A pathname \in Pathnames, dosave \in BOOLEAN :
             Snapshot(pathname, dosave) =>
                view'._do_save_data = dosave /\ Writes(vout') = 0]_vars

\* the answer of the last viewer finalized an export with the flag pending:
\* it was written once, and the flag is clear
C23_Witness ==
    /\ view.ui /\ view._received_data = view.viewers /\ view.viewers = MaxViewers
    /\ Finalized(vout) = 1
    /\ Writes(vout) = 1
    /\ ~view._do_save_data

\* -------------------------------------------------- properties: the viewers
\* C24: while a viewer has not sent back the data of the batch that was
\* forwarded last, the export of that batch is not emitted nor marked done
C24_SilentViewerStalls ==
    [](/\ view._data_to_save_export # NoExport
       /\ vhist.forwarded
       /\ echoes.pending[view._data_to_save_export.tag] > 0
       => /\ vhist.done[view._data_to_save_export.tag] = 0
          /\ ~view._grab_done)

BkgWrites(o) == Len(SelectSeq(o, LAMBDA e : e.sig = "add_bkg"))

\* the first writes of a session made in one step: a snapshot file is a
\* session of its own, the growing log starts with N_saved = 0, the indexed
\* write with the indexes all zero
FirstWrites ==
    Writes(vout')
      + (IF Finalized(vout') > 0 /\ view.append_connected /\ view.N_saved = 0 THEN 1 ELSE 0)
      + (IF InsertData(TRUE) THEN 1 ELSE 0)

\* C25: the Background in use is written with the first write of a session,
\* in each of the three ways of writing, and with no other write
C25_BkgOnFirstWrite ==
    [][BkgWrites(vout') =
          IF view'._do_bkg /\ view'._bkg # NoExport THEN FirstWrites ELSE 0]_vars

\* ------------------------------------------- properties: the worker's loop
GrabRequests(o) == Len(SelectSeq(o, LAMBDA e : e.sig = "detector.grab_data"))

\* C26: an acquisition loop that resumes after the worker has closed the
\* plugin ends, and sends the plugin no further grab request
C26_CloseEndsLoop ==
    [][(drv.detector = "closed"
          /\ \E ans \in Answers : \E b \in AnswerData(ans, OneBatch) : LoopResume(ans, b))
       => GrabRequests(out') = 0 /\ Len(stack') < Len(stack)]_vars

ActiveLoops(stk) == Cardinality({i \in DOMAIN stk : stk[i].kind = "grab_data"})

\* C27: the worker never runs more than one acquisition loop, and a grab or
\* single command delivered while a loop is suspended in processEvents starts
\* no loop and leaves the averaging counter and the in-flight marker alone
C27_OneActiveLoop ==
    /\ [](ActiveLoops(stack) <= 1)
    /\ [][(ActiveLoops(stack) = 1
             /\ \E n \in 1..MaxN, ans \in Answers : \E b \in AnswerData(ans, OneBatch) :
                   HandleGrab(n, ans, b) \/ HandleSingle(n, ans, b))
          => /\ stack' = stack
             /\ det'.ind_average = det.ind_average
             /\ det'.waiting_for_data = det.waiting_for_data]_vars

\* ------------------------------------------ properties: the data callback
StopCalls(o) == Len(SelectSeq(o, LAMBDA e : e.sig = "detector.stop"))
BatchesEmitted(o) == Len(SelectSeq(o, LAMBDA e : e.sig = "data_detector_sig"))

\* a step in which data_ready runs: a queued callback is delivered, or the
\* plugin answers inside the request of a resumed loop
DataReadyStep ==
    \/ \E b \in OneBatch : DataCallback(b)
    \/ GrabRequests(out') = 1 /\ \E b \in OneBatch : LoopResume("sync", b)

\* C28: every data callback leaves waiting_for_data false, and calls the
\* plugin's stop if and only if the grabbing flag is false
C28_CallbackClearsWaiting ==
    [][DataReadyStep =>
          /\ ~det'.waiting_for_data
          /\ StopCalls(out') = IF det.grab_state THEN 0 ELSE 1]_vars

\* a callback after a stop, in the middle of a software average: nothing is
\* emitted, the plugin is stopped
C28_Witness ==
    /\ ~det.hardware_averaging /\ det.ind_average >= 1 /\ det.ind_average < det.Naverage
    /\ BatchesEmitted(out) = 0
    /\ StopCalls(out) = 1
    /\ ~det.grab_state /\ ~det.waiting_for_data

\* C29: with hardware averaging every callback is emitted at once as one
\* batch, the data of the callback, and the averaging counter, the stored
\* mean and average_done are left as they were
C29_HardwareAveragingForwards ==
    [][\A b \in OneBatch :
          ((DataCallback(b) \/ (GrabRequests(out') = 1 /\ LoopResume("sync", b)))
              /\ det.hardware_averaging) =>
             /\ BatchesEmitted(out') = 1
             /\ \A i \in DOMAIN out' : out'[i].sig = "data_detector_sig" => out'[i].datas = b
             /\ det'.ind_average = det.ind_average
             /\ det'.datas = det.datas
             /\ det'.average_done = det.average_done]_vars

\* a callback emitted at once although the averaging target is above one
C29_Witness ==
    /\ det.hardware_averaging /\ det.Naverage > 1
    /\ BatchesEmitted(out) = 1 /\ GrabRequests(out) = 0
    /\ det.ind_average = 0 /\ det.datas = NoData /\ ~det.average_done

\* C30: stop_grab clears grab_state, calls nothing of the plugin and reports
\* Update_Status; stop_all clears grab_state and calls the plugin's stop in
\* the step of the command, and reports Update_Status when its processEvents
\* has returned
C30_StopCommands ==
    [][ /\ HandleStopGrab =>
              /\ ~det'.grab_state
              /\ \A i \in DOMAIN out' : out'[i].sig = "status_sig"
              /\ HasStatus(out', "Update_Status")
        /\ HandleStopAll =>
              /\ ~det'.grab_state
              /\ StopCalls(out') = 1
              /\ ~HasStatus(out', "Update_Status")
              /\ stack' # <<>> /\ Top(stack').kind = "stop_all"
        /\ StopAllResume => HasStatus(out', "Update_Status") ]_vars

\* ------------------------------------------- properties: initialization
InitSignals(o) == {i \in DOMAIN o : o[i].sig = "init_signal"}

C32_NotRefreshedEmittedOnce ==
    /\ [][(ShowDataStep /\ ~vhist'.forwarded /\ ~AbortsEarly(view)) =>
             /\ echoes'.shown = echoes.shown
             /\ echoes'.pending[Export'.tag] = 0
             /\ view'._grab_done
             /\ Cardinality(GrabDoneEvents(vout')) = 1
             /\ \A i \in GrabDoneEvents(vout') : vout'[i].export = Export'
             /\ view'._received_data = view._received_data]_vars
    /\ []((Export # NoExport /\ ~vhist.forwarded /\ ~view.settings.live_averaging) =>
             vhist.done[Export.tag] = 1)

\* ------------------------------------------- properties: temporary data
TempShown(o) == {i \in DOMAIN o : o[i].sig = "viewers.show_data_temp"}

C34_EchoWithoutExportIgnored ==
    [][\A data \in EchoData(0) :
          (ViewerEmitsUnasked(data) /\ Export = NoExport) =>
             /\ view' = view
             /\ vout' = <<>>
             /\ vhist' = vhist]_vars

\* a viewer has sent data and no batch has arrived yet
C34_Witness ==
    /\ echoes.unasked
    /\ vhist.nBatches = 0
    /\ Export = NoExport
    /\ view._received_data = 0
    /\ view.viewers = 1

\* ------------------------------------------- properties: failing requests
\* C35: when a request of the loop has raised, waiting_for_data is released
\* again, and the single grab ends: the loop does not go round for ever with
\* no request outstanding
C35_LoopSurvivesRaise ==
    /\ (stack # <<>> /\ det.waiting_for_data /\ drv.inFlight = 0) ~> ~det.waiting_for_data
    /\ (stack # <<>>) ~> (stack = <<>>)

\* ------------------------------------------- properties: averaging counter
\* C36: with software averaging and a target N >= 1 the counter of averaged
\* samples is within 0 .. N-1 after every step of the worker; a grab or
\* single command (its step reports the grab status) sets the target and
\* leaves the counter at 0, or at 1 mod N when the plugin has answered inside
\* the request, and every step that emits a batch leaves it at 0
C36_CounterBelowTarget ==
    [][/\ (~det'.hardware_averaging /\ det'.Naverage >= 1) =>
                (0 <= det'.ind_average /\ det'.ind_average < det'.Naverage)
       /\ HasStatus(out', "grab") =>
             /\ det'.Naverage = Top(stack').Naverage
             /\ det'.ind_average = IF det.hardware_averaging THEN 0
                                   ELSE Len(hist'.samples) % det'.Naverage
       /\ (~det.hardware_averaging /\ BatchesEmitted(out') > 0) =>
             det'.ind_average = 0]_vars

\* between the callbacks of an averaged grab, after a batch was emitted
C36_Witness ==
    /\ ~det.hardware_averaging
    /\ det.Naverage = 2 /\ det.ind_average = 1
    /\ stack # <<>>
    /\ hist.nEmit >= 1

\* ------------------------------------------- controller and worker together
\* The user's grab, snap and stop commands travel to the worker through the
\* queued connection of command_hardware (link.cmd: the command in flight, one
\* at a time); the worker runs its loop and the plugin answers.
UserCommand(grab_state, snap_state) ==
    /\ link.cmd = "none"
    /\ LET c == DAQ_Viewer_grab_data(ViewerState, grab_state, FALSE, snap_state)
       IN  /\ CommitController(c)
           /\ link' = [link EXCEPT !.cmd = CommandsSent(c.vout)[1][1]]
    /\ UNCHANGED workerVars

UserStopAll ==
    /\ link.cmd = "none"
    /\ CommitController(DAQ_Viewer_stop(ViewerState))
    /\ link' = [link EXCEPT !.cmd = "stop_all"]
    /\ UNCHANGED workerVars

\* the worker's event loop, or a processEvents of its loop, delivers the command
WorkerTakesCommand(ans, datas) ==
    /\ link.cmd \in {"single", "grab", "stop_grab", "stop_all"}
    /\ LET s1 == queue_command(WorkerState,
                               ThreadCommand(link.cmd, view.settings.Naverage), ans, datas)
       IN  /\ Len(s1.stack) <= MaxDepth
           /\ s1.drv.inFlight <= MaxInFlight
           /\ CommitWorker(s1)
    /\ link' = [link EXCEPT !.cmd = "none"]
    /\ UNCHANGED viewerVars

NextSync ==
    \/ \E grab_state \in BOOLEAN, snap_state \in BOOLEAN : UserCommand(grab_state, snap_state)
    \/ UserStopAll
    \/ \E ans \in Answers : \E b \in AnswerData(ans, OneBatch) : WorkerTakesCommand(ans, b)
    \/ \E ans \in Answers : \E b \in AnswerData(ans, OneBatch) : LoopResume(ans, b)
    \/ StopAllResume
    \/ \E b \in OneBatch : DataCallback(b)

SpecSync == Init /\ [][NextSync]_vars

\* C37: with no command in flight and no loop running the worker's grab_state
\* equals the controller's _grabing, and a callback that arrives after a
\* single grab has ended makes the worker call the plugin's stop
C37_GrabFlagsAgree ==
    /\ []((link.cmd = "none" /\ stack = <<>>) => det.grab_state = view._grabing)
    /\ [][(DataReadyStep /\ stack = <<>> /\ det.single_grab) => StopCalls(out') = 1]_vars

\* ------------------------------------------- properties: grabbing flag
\* C38: the controller's _grabing is true only while it is initialized:
\* neither a grab_data call before an ini_detector status with initialized
\* true nor a close status during a grab leaves it true when not initialized
C38_GrabbingOnlyInitialized == view._grabing => view._initialized_state

C40_EmittedExportUnsubtracted ==
    [][/\ \A k \in 1..MaxViewers : \A data \in FlatBatches(k) :
             ShowData(data) =>
                /\ Export'.data = data
                /\ \A i \in GrabDoneEvents(vout') : vout'[i].export.data = data
       /\ ~ShowDataStep =>
             /\ Export'.data = Export.data
             /\ \A i \in GrabDoneEvents(vout') : vout'[i].export.data = Export.data]_vars

\* an export emitted after the viewers were shown its data with the
\* Background subtracted
C40_Witness ==
    /\ view._do_bkg /\ view._bkg # NoExport
    /\ GrabDone(vout)
    /\ \A i \in GrabDoneEvents(vout) :
          /\ vout[i].export.tag = echoes.shown.tag
          /\ vout[i].export.data # echoes.shown.data
          /\ vout[i].export.tag > view._bkg.tag

====
